---- MODULE Spec2Model ----
(***************************************************************************)
(* Model of snark-verifier/examples/evm-verifier-with-accumulator.rs:     *)
(* the aggregation module (Snark, SnarkWitness, aggregate,                 *)
(* AggregationConfig, AggregationCircuit) and the EVM harness evm_verify.  *)
(*                                                                         *)
(* Field elements are little-endian byte strings of ReprLen bytes, the    *)
(* form PrimeField::to_repr yields, so that limb decomposition and        *)
(* calldata encoding are computed on the bytes and not assumed.           *)
(* The cryptographic library calls (Plonk::read_proof,                    *)
(* Plonk::succinct_verify, As::create_proof, As::verify) are modelled     *)
(* symbolically: the accumulator of a snark is the term built from the    *)
(* call's arguments, and the value of the folded accumulator is chosen    *)
(* once per distinct argument list and remembered in asOracle.            *)
(***************************************************************************)
EXTENDS Integers, Sequences, FiniteSets, TLC

\* ---------------------------------------------------------------- constants
LIMBS == 3
BITS == 88
ReprLen == 32

\* ------------------------------------------------------------------- bounds
MaxSnarks == 2
MaxRuns == 2
MaxWithout == 2

\* ------------------------------------------------------------------ helpers
None == [some |-> FALSE]
Some(v) == [some |-> TRUE, get |-> v]

\* halo2 Value<T>
Unknown == [known |-> FALSE]
Known(v) == [known |-> TRUE, val |-> v]

RECURSIVE Pow2(_)
Pow2(n) == IF n = 0 THEN 1 ELSE 2 * Pow2(n - 1)

RECURSIVE Concat(_)
Concat(ss) == IF ss = <<>> THEN <<>> ELSE Head(ss) \o Concat(Tail(ss))

Reverse(s) == [i \in 1..Len(s) |-> s[Len(s) + 1 - i]]

Pad(bytes, n) == [i \in 1..n |-> IF i <= Len(bytes) THEN bytes[i] ELSE 0]

\* bit n (0-based) of a little-endian byte string read as a natural number
BigBit(big, n) ==
    IF (n \div 8) + 1 <= Len(big) THEN (big[(n \div 8) + 1] \div Pow2(n % 8)) % 2 ELSE 0

\* byte j (0-based) of (big >> shift) & ((1 << bits) - 1)
ShiftMaskByte(big, shift, bits, j) ==
    LET b(k) == IF 8 * j + k < bits THEN BigBit(big, shift + 8 * j + k) * Pow2(k) ELSE 0
    IN  b(0) + b(1) + b(2) + b(3) + b(4) + b(5) + b(6) + b(7)

\* fe_from_big: the field element whose repr is the given number
fe_from_big(big, shift, bits) ==
    [i \in 1..ReprLen |-> ShiftMaskByte(big, shift, bits, i - 1)]

\* fe_to_limbs::<_, _, LIMBS, BITS>: little-endian limbs of `bits` bits
fe_to_limbs(fe, limbs, bits) ==
    [i \in 1..limbs |-> fe_from_big(fe, (i - 1) * bits, bits)]

\* ------------------------------------------------------ sample field values
FqA == [i \in 1..ReprLen |-> i]
FqB == [i \in 1..ReprLen |-> IF i = ReprLen THEN 17 ELSE 200 - 3 * i]
FqC == Pad(<<255, 255, 255, 255, 255, 255, 255, 255, 255, 255, 255, 1>>, ReprLen)
\* q - 1 for the BN254 base field: the largest representable coordinate
FqTop == <<70, 253, 124, 216, 22, 140, 32, 60, 141, 202, 113, 104, 145, 106, 129, 151,
           93, 88, 129, 129, 182, 69, 80, 184, 41, 160, 49, 225, 114, 78, 100, 48>>
FqZero == Pad(<<>>, ReprLen)

Point(x, y) == [x |-> x, y |-> y]
KzgAccumulator(lhs, rhs) == [lhs |-> lhs, rhs |-> rhs]

AccSamples ==
    { KzgAccumulator(Point(FqA, FqB), Point(FqC, FqTop)),
      KzgAccumulator(Point(FqTop, FqZero), Point(FqB, FqA)) }

\* ------------------------------------------------- library calls (symbolic)
\* Protocol<G1Affine>: the descriptor compiled from a verifying key
Protocols ==
    { [name |-> "app_a", num_instance |-> <<1>>, proof_len |-> 2],
      [name |-> "app_b", num_instance |-> <<2>>, proof_len |-> 2] }

\* application instance values (elements of Fr, named by small numbers)
InstanceSamples == { << <<7>> >>, << <<7, 9>> >> }
ProofSamples == { <<1, 2>>, <<3, 4>>, <<5>> }

Shape(instances) == [i \in 1..Len(instances) |-> Len(instances[i])]

\* Plonk::read_proof in native mode fails on an instance-count mismatch with
\* the protocol and on a proof of the wrong byte length
read_proof_ok(protocol, instances, proof) ==
    /\ Shape(instances) = protocol.num_instance
    /\ Len(proof) = protocol.proof_len

\* Plonk::read_proof: the proof read from the transcript over the proof bytes
read_proof(svk, protocol, instances, transcript) == [read |-> transcript]

\* Plonk::succinct_verify: the accumulators (one per proof) as terms of the
\* arguments; the same operator serves both loaders
succinct_verify(svk, protocol, instances, proof) ==
    << [svk |-> svk, protocol |-> protocol, instances |-> instances, proof |-> proof] >>

\* the accumulation proof bytes As::create_proof leaves in its transcript
as_proof_bytes(accumulators) == << Len(accumulators) >>

Call(op, args) == [op |-> op, args |-> args]

\* ---------------------------------------------------- Snark / SnarkWitness
SnarkNewRec(protocol, instances, proof) ==
    [protocol |-> protocol, instances |-> instances, proof |-> proof]

\* impl From<Snark> for SnarkWitness
FromSnark(snark) ==
    [protocol |-> snark.protocol,
     instances |-> [i \in 1..Len(snark.instances) |->
                      [j \in 1..Len(snark.instances[i]) |-> Known(snark.instances[i][j])]],
     proof |-> Known(snark.proof)]

\* mutant: the instance columns dropped instead of blanked
SnarkWitness_without_witnesses_empty(self) ==
    [protocol |-> self.protocol, instances |-> <<>>, proof |-> Unknown]

\* SnarkWitness::without_witnesses
SnarkWitness_without_witnesses(self) ==
    [protocol |-> self.protocol,
     instances |-> [i \in 1..Len(self.instances) |->
                      [j \in 1..Len(self.instances[i]) |-> Unknown]],
     proof |-> Unknown]

\* ------------------------------------------- AggregationCircuit::new, native
\* the flat_map over the snarks: stops at the first read_proof that fails
RECURSIVE NativeVerify(_, _)
NativeVerify(svk, ss) ==
    IF ss = <<>> THEN [ok |-> TRUE, accs |-> <<>>, trace |-> <<>>]
    ELSE LET snark == Head(ss)
             t == Call("transcript", <<snark.proof>>)
             r == Call("read_proof", <<svk, snark.protocol, snark.instances>>)
             v == Call("succinct_verify", <<svk, snark.protocol, snark.instances>>)
         IN  IF ~read_proof_ok(snark.protocol, snark.instances, snark.proof)
             THEN [ok |-> FALSE, accs |-> <<>>, trace |-> <<t, r>>]
             ELSE LET proof == read_proof(svk, snark.protocol, snark.instances, snark.proof)
                      rest == NativeVerify(svk, Tail(ss))
                  IN  [ok |-> rest.ok,
                       accs |-> succinct_verify(svk, snark.protocol, snark.instances, proof)
                                  \o rest.accs,
                       trace |-> <<t, r, v>> \o rest.trace]

\* mutant: the coordinates taken as [lhs.x, rhs.x, lhs.y, rhs.y]
NewInstances_swapped(acc) ==
    Concat([c \in 1..4 |-> fe_to_limbs(<<acc.lhs.x, acc.rhs.x, acc.lhs.y, acc.rhs.y>>[c],
                                       LIMBS, BITS)])

\* mutant: only the limbs of lhs are exposed
NewInstances_lhs_only(acc) ==
    Concat([c \in 1..2 |-> fe_to_limbs(<<acc.lhs.x, acc.lhs.y>>[c], LIMBS, BITS)])

\* mutant: the limbs cut one byte narrower than BITS
NewInstances_narrow(acc) ==
    Concat([c \in 1..4 |-> fe_to_limbs(<<acc.lhs.x, acc.lhs.y, acc.rhs.x, acc.rhs.y>>[c],
                                       LIMBS, BITS - 8)])

\* [lhs.x, lhs.y, rhs.x, rhs.y].map(fe_to_limbs::<_, _, LIMBS, BITS>).concat()
NewInstances(acc) ==
    Concat([c \in 1..4 |-> fe_to_limbs(<<acc.lhs.x, acc.lhs.y, acc.rhs.x, acc.rhs.y>>[c],
                                       LIMBS, BITS)])

\* mutant: the witnesses stored in reverse order
NewSnarks_reversed(ss) == [k \in 1..Len(ss) |-> FromSnark(ss[Len(ss) + 1 - k])]

\* snarks.into_iter().map_into().collect()
NewSnarks(ss) == [k \in 1..Len(ss) |-> FromSnark(ss[k])]

Extend(f, k, v) == [x \in DOMAIN f \cup {k} |-> IF x = k THEN v ELSE f[x]]

\* ------------------------------------------------- AggregationCircuit (API)
\* AggregationCircuit::num_instance
num_instance == << 4 * LIMBS >>

\* AggregationCircuit::instances
instances(self) == << self.instances >>

\* mutant: the indices counted from 1
accumulator_indices_from_one == [k \in 1..(4 * LIMBS) |-> <<0, k>>]

\* AggregationCircuit::accumulator_indices: (0..4 * LIMBS).map(|idx| (0, idx))
accumulator_indices == [k \in 1..(4 * LIMBS) |-> <<0, k - 1>>]

\* AggregationCircuit::as_proof
as_proof(self) == self.as_proof

\* mutant: the instances of the witnessed circuit carried over
AggregationCircuit_without_witnesses_keep(self) ==
    [svk |-> self.svk,
     snarks |-> [k \in 1..Len(self.snarks) |-> SnarkWitness_without_witnesses(self.snarks[k])],
     instances |-> self.instances,
     as_proof |-> Unknown]

\* Circuit::without_witnesses for AggregationCircuit
AggregationCircuit_without_witnesses(self) ==
    [svk |-> self.svk,
     snarks |-> [k \in 1..Len(self.snarks) |-> SnarkWitness_without_witnesses(self.snarks[k])],
     instances |-> <<>>,
     as_proof |-> Unknown]

\* ------------------------------------------------------ configuration input
\* AggregationConfigParams as read from the file VERIFY_CONFIG names
ConfigParams(limb_bits, num_limbs) ==
    [strategy |-> "Simple", degree |-> 21, num_advice |-> 6, num_lookup_advice |-> 1,
     num_fixed |-> 1, lookup_bits |-> 20, limb_bits |-> limb_bits, num_limbs |-> num_limbs]

LimbBitsSamples == {BITS, 96}
NumLimbsSamples == {LIMBS, 2}

\* outcomes of env::var, File::open and serde_json::from_reader
ConfigInputs ==
    { [kind |-> "no_env"], [kind |-> "no_file"], [kind |-> "bad_json"] }
    \cup { [kind |-> "params", params |-> ConfigParams(b, n)] :
             b \in LimbBitsSamples, n \in NumLimbsSamples }

\* mutant: only the limb width is checked
ConfigureAssert_bits_only(params) == params.limb_bits = BITS

\* the assert! of AggregationConfig::configure
ConfigureAssert(params) == params.limb_bits = BITS /\ params.num_limbs = LIMBS

\* a fresh ConstraintSystem
FreshMeta == [fp_chips |-> 0, instance_columns |-> 0, equality |-> {}]

\* ------------------------------------------------------ aggregate, in circuit
\* loader.assign_scalar over the instance columns
assign_instances(insts) ==
    [i \in 1..Len(insts) |-> [j \in 1..Len(insts[i]) |-> insts[i][j]]]

RECURSIVE LoadedVerify(_, _)
LoadedVerify(svk, ws) ==
    IF ws = <<>> THEN [accs |-> <<>>, trace |-> <<>>]
    ELSE LET snark == Head(ws)
             protocol == snark.protocol
             insts == assign_instances(snark.instances)
             proof == read_proof(svk, protocol, insts, snark.proof)
             rest == LoadedVerify(svk, Tail(ws))
         IN  [accs |-> succinct_verify(svk, protocol, insts, proof) \o rest.accs,
              trace |-> << Call("transcript", <<snark.proof>>),
                           Call("read_proof", <<svk, protocol, insts>>),
                           Call("succinct_verify", <<svk, protocol, insts>>) >>
                        \o rest.trace]

AccKnown(a) ==
    /\ a.proof.read.known
    /\ \A i \in 1..Len(a.instances) : \A j \in 1..Len(a.instances[i]) : a.instances[i][j].known

\* the native value a loaded accumulator term stands for
UnloadAcc(a) ==
    [svk |-> a.svk, protocol |-> a.protocol,
     instances |-> [i \in 1..Len(a.instances) |->
                      [j \in 1..Len(a.instances[i]) |-> a.instances[i][j].val]],
     proof |-> [read |-> a.proof.read.val]]

\* mutant: the accumulators handed to the accumulation verifier in reverse
aggregate_reversed(svk, ws, asp) ==
    LET lv == LoadedVerify(svk, ws)
    IN  [accs |-> Reverse(lv.accs),
         trace |-> lv.trace \o << Call("As::read_proof", <<Reverse(lv.accs), asp>>),
                                  Call("As::verify", <<Reverse(lv.accs)>>) >>,
         known |-> asp.known /\ \A k \in 1..Len(lv.accs) : AccKnown(lv.accs[k])]

\* the trace and accumulators of aggregate(svk, loader, snarks, as_proof)
aggregate(svk, ws, asp) ==
    LET lv == LoadedVerify(svk, ws)
    IN  [accs |-> lv.accs,
         trace |-> lv.trace \o << Call("As::read_proof", <<lv.accs, asp>>),
                                  Call("As::verify", <<lv.accs>>) >>,
         known |-> asp.known /\ \A k \in 1..Len(lv.accs) : AccKnown(lv.accs[k])]

\* EcPoint coordinates' truncation.limbs: the chip's limbs of one coordinate,
\* cut as the configured base field chip cuts them
truncation_limbs(fe, cfg) ==
    [j \in 1..cfg.num_limbs |->
       IF fe.known THEN Known(fe_from_big(fe.val, (j - 1) * cfg.limb_bits, cfg.limb_bits))
       ELSE Unknown]

\* lhs.x limbs, lhs.y limbs, rhs.x limbs, rhs.y limbs, chained: cell ids
ChainCells(cfg) ==
    Concat([c \in 1..4 |-> [j \in 1..cfg.num_limbs |->
                              <<(<<"lhs.x", "lhs.y", "rhs.x", "rhs.y">>)[c], j - 1>>]])

CoordOf(acc, name) ==
    IF ~acc.known THEN Unknown
    ELSE Known(CASE name = "lhs.x" -> acc.val.lhs.x
                 [] name = "lhs.y" -> acc.val.lhs.y
                 [] name = "rhs.x" -> acc.val.rhs.x
                 [] name = "rhs.y" -> acc.val.rhs.y)

CoordNames == {"lhs.x", "lhs.y", "rhs.x", "rhs.y"}

\* the advice cells holding the limbs of the assigned accumulator
AssignedLimbs(acc, cfg) ==
    [id \in CoordNames \X (0..(cfg.num_limbs - 1)) |->
       truncation_limbs(CoordOf(acc, id[1]), cfg)[id[2] + 1]]

VARIABLES pc, panic, snarks, agg_circuit, native, asOracle,
          shadow, wwCalls, runs, params, meta, config,
          target, first_pass, region_calls, assigned_instances, constraints, advice, loaded,
          synthResult, verifier, evm

vars == <<pc, panic, snarks, agg_circuit, native, asOracle,
          shadow, wwCalls, runs, params, meta, config,
          target, first_pass, region_calls, assigned_instances, constraints, advice, loaded,
          synthResult, verifier, evm>>

nativeVars == <<snarks, agg_circuit, native>>
configVars == <<params, meta, config>>
synthVars == <<target, first_pass, region_calls, assigned_instances, constraints, advice,
               loaded, synthResult>>
evmVars == <<verifier, evm>>

Svk == "g1"

\* proofs of the aggregation circuit, as gen_proof returns them
EvmProofSamples == { <<10, 11>>, <<12>> }

\* loader::evm::encode_calldata: every instance as 32 big-endian bytes, in
\* column order, followed by the proof bytes
encode_calldata(insts, proof) ==
    Concat([k \in 1..Len(Concat(insts)) |-> Reverse(Concat(insts)[k])]) \o proof

\* Address::from_low_u64_be(0xfe)
Caller == 254

NoEvm == [args |-> None, calldata |-> <<>>, log |-> <<>>, verifier |-> None,
          result |-> None]

\* mutant: the first pass of the region closure is not skipped
SKIP_FIRST_PASS_off == FALSE

\* halo2_base::SKIP_FIRST_PASS
SKIP_FIRST_PASS == TRUE

NoLoaded == [accs |-> <<>>, trace |-> <<>>, accumulator |-> Unknown, runs |-> 0]

Init ==
    /\ pc = "snarks"
    /\ panic = "none"
    /\ snarks = <<>>
    /\ agg_circuit = None
    /\ native = [accs |-> <<>>, trace |-> <<>>, accumulator |-> None]
    /\ asOracle = <<>>
    /\ shadow = None
    /\ wwCalls = 0
    /\ runs = 0
    /\ params = None
    /\ meta = FreshMeta
    /\ config = None
    /\ target = "none"
    /\ first_pass = SKIP_FIRST_PASS
    /\ region_calls = 0
    /\ assigned_instances = None
    /\ constraints = <<>>
    /\ advice = <<>>
    /\ loaded = NoLoaded
    /\ synthResult = "none"
    /\ verifier = None
    /\ evm = NoEvm

\* Snark::new, as main collects the snarks to aggregate
Snark_new ==
    /\ pc = "snarks"
    /\ Len(snarks) < MaxSnarks
    /\ \E protocol \in Protocols, insts \in InstanceSamples, proof \in ProofSamples :
          snarks' = Append(snarks, SnarkNewRec(protocol, insts, proof))
    /\ UNCHANGED <<pc, panic, agg_circuit, native, asOracle, shadow, wwCalls, runs>>
    /\ UNCHANGED <<configVars, synthVars, evmVars>>

\* AggregationCircuit::new(params, snarks), the folded accumulator taking a
\* value of `samples`
NewWith(samples) ==
    /\ pc = "snarks"
    /\ LET nv == NativeVerify(Svk, snarks)
       IN  IF ~nv.ok
           THEN /\ pc' = "panicked"
                /\ panic' = "read_proof"
                /\ native' = [native EXCEPT !.trace = nv.trace]
                /\ UNCHANGED <<agg_circuit, asOracle>>
           ELSE IF nv.accs = <<>>
           THEN /\ pc' = "panicked"
                /\ panic' = "create_proof"
                /\ native' = [native EXCEPT !.trace = nv.trace]
                /\ UNCHANGED <<agg_circuit, asOracle>>
           ELSE \E acc \in samples :
                /\ asOracle' = Extend(asOracle, nv.accs, acc)
                /\ native' = [accs |-> nv.accs,
                              trace |-> Append(nv.trace, Call("As::create_proof", <<nv.accs>>)),
                              accumulator |-> Some(acc)]
                /\ agg_circuit' = Some([svk |-> Svk,
                                        snarks |-> NewSnarks(snarks),
                                        instances |-> NewInstances(acc),
                                        as_proof |-> Known(as_proof_bytes(nv.accs))])
                /\ pc' = "idle"
                /\ panic' = panic
    /\ UNCHANGED <<snarks, shadow, wwCalls, runs, configVars, synthVars, evmVars>>

\* AggregationCircuit::new(params, snarks)
AggregationCircuit_new == NewWith(AccSamples)

\* the circuit a driver call is made on
CircuitOf(t) == IF t = "shadow" THEN shadow.get ELSE agg_circuit.get

Circuits == {"agg"} \cup (IF shadow.some THEN {"shadow"} ELSE {})

\* Circuit::without_witnesses, called by the proving system on either circuit
Circuit_without_witnesses ==
    /\ pc = "idle"
    /\ wwCalls < MaxWithout
    /\ \E t \in Circuits :
          shadow' = Some(AggregationCircuit_without_witnesses(CircuitOf(t)))
    /\ wwCalls' = wwCalls + 1
    /\ UNCHANGED <<pc, panic, asOracle, runs, nativeVars, configVars, synthVars, evmVars>>

\* Circuit::configure: VERIFY_CONFIG, File::open, serde_json::from_reader,
\* then AggregationConfig::configure on a fresh constraint system
Circuit_configure ==
    /\ pc = "idle"
    /\ runs < MaxRuns
    /\ runs' = runs + 1
    /\ \E input \in ConfigInputs :
          IF input.kind = "params"
          THEN /\ params' = Some(input.params)
               /\ meta' = FreshMeta
               /\ config' = None
               /\ pc' = "configure_assert"
               /\ panic' = panic
          ELSE /\ pc' = "panicked"
               /\ panic' = input.kind
               /\ UNCHANGED configVars
    /\ UNCHANGED <<asOracle, shadow, wwCalls, nativeVars, synthVars, evmVars>>

\* AggregationConfig::configure: the assert! on limb_bits and num_limbs
AggregationConfig_configure_assert ==
    /\ pc = "configure_assert"
    /\ IF ConfigureAssert(params.get)
       THEN pc' = "configure_base" /\ panic' = panic
       ELSE pc' = "panicked" /\ panic' = "limb_assert"
    /\ UNCHANGED <<asOracle, shadow, wwCalls, runs, nativeVars, configVars, synthVars, evmVars>>

\* AggregationConfig::configure: FpConfig::configure with the params' limbs
AggregationConfig_configure_base ==
    /\ pc = "configure_base"
    /\ meta' = [meta EXCEPT !.fp_chips = @ + 1]
    /\ pc' = "configure_instance"
    /\ UNCHANGED <<panic, asOracle, shadow, wwCalls, runs, nativeVars, params, config, synthVars,
                   evmVars>>

\* AggregationConfig::configure: instance_column, enable_equality, Self {..}
AggregationConfig_configure_instance ==
    /\ pc = "configure_instance"
    /\ meta' = [meta EXCEPT !.instance_columns = @ + 1,
                            !.equality = @ \cup {meta.instance_columns}]
    /\ config' = Some([base_field_config |-> [limb_bits |-> params.get.limb_bits,
                                              num_limbs |-> params.get.num_limbs],
                       instance |-> meta.instance_columns])
    /\ pc' = "configured"
    /\ UNCHANGED <<panic, asOracle, shadow, wwCalls, runs, nativeVars, params, synthVars, evmVars>>

\* synthesize returns to the proving system; gen_pk and gen_proof unwrap
\* the result of keygen_vk, keygen_pk, MockProver::run and create_proof
Return(result) ==
    /\ synthResult' = result
    /\ IF result = "Ok" THEN pc' = "idle" /\ panic' = panic
                        ELSE pc' = "panicked" /\ panic' = "synthesize_err"

\* synthesize: load_lookup_table, then the locals before assign_region
Synthesize_begin ==
    /\ pc = "configured"
    /\ \E t \in Circuits, ok \in BOOLEAN :
          /\ target' = t
          /\ first_pass' = SKIP_FIRST_PASS
          /\ region_calls' = 0
          /\ assigned_instances' = None
          /\ constraints' = <<>>
          /\ advice' = <<>>
          /\ loaded' = NoLoaded
          /\ IF ok THEN synthResult' = "running" /\ pc' = "region" /\ panic' = panic
                   ELSE Return("Err")
    /\ UNCHANGED <<asOracle, shadow, wwCalls, runs, nativeVars, configVars, evmVars>>

\* one call of the assign_region closure by the SimpleFloorPlanner, which
\* calls it twice: once to measure the region's shape and once to assign
Synthesize_region ==
    /\ pc = "region"
    /\ \E ok \in BOOLEAN :
       IF ~ok
       THEN /\ Return("Err")
            /\ UNCHANGED <<first_pass, region_calls, assigned_instances, advice, loaded,
                           asOracle>>
       ELSE
       /\ region_calls' = region_calls + 1
       /\ synthResult' = synthResult
       /\ panic' = panic
       /\ pc' = IF region_calls + 1 = 2 THEN "expose" ELSE "region"
       /\ IF first_pass
          THEN /\ first_pass' = FALSE
               /\ UNCHANGED <<assigned_instances, advice, loaded, asOracle>>
          ELSE LET self == CircuitOf(target)
                   ag == aggregate(self.svk, self.snarks, as_proof(self))
                   key == [k \in 1..Len(ag.accs) |-> UnloadAcc(ag.accs[k])]
                   cfg == config.get.base_field_config
               IN  \E acc \in AccSamples :
                   /\ ag.known /\ key \in DOMAIN asOracle => acc = asOracle[key]
                   /\ ~ag.known => acc = CHOOSE a \in AccSamples : TRUE
                   /\ asOracle' = IF ag.known THEN Extend(asOracle, key, acc) ELSE asOracle
                   /\ LET accumulator == IF ag.known THEN Known(acc) ELSE Unknown
                      IN  /\ loaded' = [accs |-> ag.accs, trace |-> ag.trace,
                                        accumulator |-> accumulator,
                                        runs |-> loaded.runs + 1]
                          /\ advice' = AssignedLimbs(accumulator, cfg)
                   /\ assigned_instances' = Some(ChainCells(cfg))
                   /\ first_pass' = first_pass
    /\ UNCHANGED <<target, constraints, shadow, wwCalls, runs, nativeVars, configVars, evmVars>>

\* one iteration of the loop over assigned_instances.unwrap(), or its end
Synthesize_expose ==
    /\ pc = "expose"
    /\ IF ~assigned_instances.some
       THEN /\ pc' = "panicked"
            /\ panic' = "unwrap_none"
            /\ UNCHANGED <<constraints, synthResult>>
       ELSE LET cells == assigned_instances.get
                i == Len(constraints)
            IN  IF i = Len(cells)
                THEN Return("Ok") /\ UNCHANGED constraints
                ELSE \E ok \in BOOLEAN :
                     IF ok
                     THEN /\ constraints' = Append(constraints,
                                                   [cell |-> cells[i + 1],
                                                    column |-> config.get.instance,
                                                    row |-> i])
                          /\ UNCHANGED <<pc, panic, synthResult>>
                     ELSE Return("Err") /\ UNCHANGED constraints
    /\ UNCHANGED <<target, first_pass, region_calls, assigned_instances, advice, loaded>>
    /\ UNCHANGED <<asOracle, shadow, wwCalls, runs, nativeVars, configVars, evmVars>>

\* main: gen_aggregation_evm_verifier(params, vk, num_instance(),
\* accumulator_indices()); the deployment code is kept as its Config
Gen_aggregation_evm_verifier ==
    /\ pc = "idle"
    /\ ~verifier.some
    /\ verifier' = Some([num_instance |-> num_instance,
                         accumulator_indices |-> accumulator_indices])
    /\ UNCHANGED <<pc, panic, asOracle, shadow, wwCalls, runs, nativeVars, configVars,
                   synthVars, evm>>

\* evm_verify(deployment_code, agg_circuit.instances(), proof): encode_calldata
\* and the executor's construction
Evm_verify_begin ==
    /\ pc = "idle"
    /\ verifier.some
    /\ synthResult = "Ok" /\ target = "agg"
    /\ \E proof \in EvmProofSamples :
          LET insts == instances(agg_circuit.get)
          IN  evm' = [NoEvm EXCEPT !.args = Some([deployment_code |-> verifier.get,
                                                  instances |-> insts, proof |-> proof]),
                                   !.calldata = encode_calldata(insts, proof)]
    /\ pc' = "evm_deploy"
    /\ UNCHANGED <<panic, asOracle, shadow, wwCalls, runs, nativeVars, configVars, synthVars,
                   verifier>>

\* evm.deploy(caller, deployment_code, 0).address.unwrap()
Evm_verify_deploy ==
    /\ pc = "evm_deploy"
    /\ \E address \in {None, Some(4096)} :
          /\ evm' = [evm EXCEPT !.log = Append(@, Call("deploy",
                                                       <<Caller, evm.args.get.deployment_code>>)),
                                !.verifier = address]
          /\ IF address.some THEN pc' = "evm_call" /\ panic' = panic
                             ELSE pc' = "panicked" /\ panic' = "address_unwrap"
    /\ UNCHANGED <<asOracle, shadow, wwCalls, runs, nativeVars, configVars, synthVars, verifier>>

\* evm.call_raw(caller, verifier, calldata, 0)
Evm_verify_call ==
    /\ pc = "evm_call"
    /\ \E reverted \in BOOLEAN :
          evm' = [evm EXCEPT !.log = Append(@, Call("call_raw",
                                                    <<Caller, evm.verifier.get, evm.calldata>>)),
                             !.result = Some([reverted |-> reverted])]
    /\ pc' = "evm_assert"
    /\ UNCHANGED <<panic, asOracle, shadow, wwCalls, runs, nativeVars, configVars, synthVars,
                   verifier>>

\* mutant: the revert flag ignored
EvmSuccess_ignored(result) == TRUE

\* let success = !result.reverted; assert!(success)
EvmSuccess(result) == ~result.reverted

Evm_verify_assert ==
    /\ pc = "evm_assert"
    /\ IF EvmSuccess(evm.result.get)
       THEN pc' = "done" /\ panic' = panic
       ELSE pc' = "panicked" /\ panic' = "assert_success"
    /\ UNCHANGED <<asOracle, shadow, wwCalls, runs, nativeVars, configVars, synthVars, evmVars>>

Next ==
    \/ Snark_new
    \/ AggregationCircuit_new
    \/ Circuit_without_witnesses
    \/ Circuit_configure
    \/ AggregationConfig_configure_assert
    \/ AggregationConfig_configure_base
    \/ AggregationConfig_configure_instance
    \/ Synthesize_begin
    \/ Synthesize_region
    \/ Synthesize_expose
    \/ Gen_aggregation_evm_verifier
    \/ Evm_verify_begin
    \/ Evm_verify_deploy
    \/ Evm_verify_call
    \/ Evm_verify_assert

Spec == Init /\ [][Next]_vars
\* ================================================================== claims
\* byte i (from 1) of limb j (from 0) of a coordinate, read off its repr:
\* a limb is BITS \div 8 whole bytes of the coordinate
LimbByte(fe, j, i) ==
    IF i <= BITS \div 8 /\ (BITS \div 8) * j + i <= ReprLen
    THEN fe[(BITS \div 8) * j + i] ELSE 0

ExpectedLimb(fe, j) == [i \in 1..ReprLen |-> LimbByte(fe, j, i)]

Coordinates(acc) == <<acc.lhs.x, acc.lhs.y, acc.rhs.x, acc.rhs.y>>
CoordinateNames == <<"lhs.x", "lhs.y", "rhs.x", "rhs.y">>

\* C1: the instance vector built by AggregationCircuit::new is the limbs of
\* lhs.x, lhs.y, rhs.x, rhs.y of the combined accumulator in that order, and
\* synthesize constrains row i of the instance column to the cell of the
\* i-th limb of that same order, whose value (when witnessed) is instance i.
C1_InstanceOrder ==
    /\ agg_circuit.some =>
         /\ Len(agg_circuit.get.instances) = 4 * LIMBS
         /\ \A c \in 1..4 : \A j \in 0..(LIMBS - 1) :
               agg_circuit.get.instances[(c - 1) * LIMBS + j + 1]
                 = ExpectedLimb(Coordinates(native.accumulator.get)[c], j)
    /\ \A r \in 1..Len(constraints) :
         /\ r <= 4 * LIMBS
         /\ constraints[r].row = r - 1
         /\ config.some => constraints[r].column = config.get.instance
         /\ constraints[r].cell = << CoordinateNames[((r - 1) \div LIMBS) + 1], (r - 1) % LIMBS >>
         /\ target = "agg" => advice[constraints[r].cell] = Known(agg_circuit.get.instances[r])

C1_Witness ==
    /\ pc = "idle" /\ synthResult = "Ok" /\ target = "agg"
    /\ Len(constraints) = 4 * LIMBS
    /\ native.accumulator.get.lhs.y # native.accumulator.get.rhs.x

\* C2: num_instance() is the single column count [4 * LIMBS], and a circuit
\* returned by AggregationCircuit::new, for any number of snarks, exposes
\* through instances() exactly one column of exactly 4 * LIMBS elements.
C2_InstanceShape ==
    /\ num_instance = << 4 * LIMBS >>
    /\ agg_circuit.some =>
         /\ Len(snarks) >= 1
         /\ Len(instances(agg_circuit.get)) = 1
         /\ Len(instances(agg_circuit.get)[1]) = 4 * LIMBS
         /\ Shape(instances(agg_circuit.get)) = num_instance

C2_Witness ==
    /\ agg_circuit.some
    /\ Len(snarks) = MaxSnarks
    /\ Len(instances(agg_circuit.get)[1]) = 12

\* C3: accumulator_indices() is the pairs (0, idx), idx = 0 .. 4*LIMBS-1, in
\* increasing order without duplicates, every pair inside the shape declared
\* by num_instance() and every declared slot covered.
C3_AccumulatorIndices ==
    verifier.some =>
      LET ai == verifier.get.accumulator_indices
          ni == verifier.get.num_instance
      IN  /\ Len(ai) = 4 * LIMBS
          /\ \A k \in 1..Len(ai) : ai[k] = <<0, k - 1>>
          /\ \A k \in 1..(Len(ai) - 1) : ai[k][2] < ai[k + 1][2]
          /\ \A k, l \in 1..Len(ai) : k # l => ai[k] # ai[l]
          /\ \A k \in 1..Len(ai) : ai[k][1] < Len(ni) /\ ai[k][2] < ni[ai[k][1] + 1]
          /\ \A col \in 0..(Len(ni) - 1) : \A row \in 0..(ni[col + 1] - 1) :
                \E k \in 1..Len(ai) : ai[k] = <<col, row>>

C3_Witness ==
    /\ verifier.some
    /\ Len(verifier.get.accumulator_indices) = 12
    /\ pc = "idle"

\* C4: AggregationConfig::configure panics whenever limb_bits # BITS or
\* num_limbs # LIMBS, before the base field chip is configured and before an
\* instance column is created; with both equal the assert never fails.
ParamsMismatch == params.get.limb_bits # BITS \/ params.get.num_limbs # LIMBS

ConfigureStarted == pc \in {"configure_assert", "configure_base", "configure_instance"}

C4_LimbAssert ==
    /\ (params.some /\ ParamsMismatch /\ (ConfigureStarted \/ panic = "limb_assert")) =>
         /\ pc = "configure_assert" \/ (pc = "panicked" /\ panic = "limb_assert")
         /\ meta.fp_chips = 0
         /\ meta.instance_columns = 0
         /\ ~config.some
    /\ panic = "limb_assert" => (params.some /\ ParamsMismatch)
    /\ (meta.fp_chips > 0 \/ meta.instance_columns > 0 \/ config.some) =>
         (params.some /\ ~ParamsMismatch)

C4_Witness ==
    /\ pc = "panicked" /\ panic = "limb_assert"
    /\ params.get.limb_bits = BITS /\ params.get.num_limbs # LIMBS

\* C5: in synthesize no instance cell is constrained before the region
\* assignment has run aggregate and recorded the limb cells; aggregate is not
\* run in the skipped first pass; Instance Exposure constrains the i-th
\* recorded cell to row i, no cell twice, and on Ok every cell once.
TimesConstrained(cell) ==
    Cardinality({r \in 1..Len(constraints) : constraints[r].cell = cell})

C5_PhaseOrder ==
    /\ pc = "region" => constraints = <<>>
    /\ (pc = "region" /\ region_calls <= 1) => (loaded.runs = 0 /\ ~assigned_instances.some)
    /\ (pc = "region" /\ region_calls = 1) => ~first_pass
    /\ constraints # <<>> =>
         /\ assigned_instances.some
         /\ loaded.runs = 1
         /\ region_calls = 2
         /\ Len(constraints) <= Len(assigned_instances.get)
         /\ \A r \in 1..Len(constraints) :
               /\ constraints[r].cell = assigned_instances.get[r]
               /\ constraints[r].row = r - 1
               /\ TimesConstrained(constraints[r].cell) = 1
    /\ synthResult = "Ok" =>
         /\ loaded.runs = 1
         /\ \A r \in 1..Len(assigned_instances.get) :
               TimesConstrained(assigned_instances.get[r]) = 1

C5_Witness ==
    /\ pc = "idle" /\ synthResult = "Ok" /\ target = "shadow"
    /\ Len(constraints) = Len(assigned_instances.get)
    /\ Len(constraints) > 0
\* the Value-wrapped form of a snark's instance columns
KnownColumns(insts) ==
    [i \in 1..Len(insts) |-> [j \in 1..Len(insts[i]) |-> Known(insts[i][j])]]

AggregateRan == loaded.runs >= 1

\* C6: the supplied order of the snarks is kept on both sides: the k-th
\* native accumulator comes from the k-th supplied snark, the circuit stores
\* the k-th snark's witness at position k, and the k-th accumulator handed to
\* the in-circuit accumulation step comes from that same k-th snark.
C6_SnarkOrder ==
    agg_circuit.some =>
      /\ Len(native.accs) = Len(snarks)
      /\ Len(agg_circuit.get.snarks) = Len(snarks)
      /\ \A k \in 1..Len(snarks) :
            /\ native.accs[k].protocol = snarks[k].protocol
            /\ native.accs[k].instances = snarks[k].instances
            /\ native.accs[k].proof.read = snarks[k].proof
            /\ agg_circuit.get.snarks[k].protocol = snarks[k].protocol
            /\ agg_circuit.get.snarks[k].instances = KnownColumns(snarks[k].instances)
            /\ agg_circuit.get.snarks[k].proof = Known(snarks[k].proof)
      /\ AggregateRan =>
            /\ Len(loaded.accs) = Len(snarks)
            /\ \A k \in 1..Len(snarks) :
                  /\ loaded.accs[k].protocol = snarks[k].protocol
                  /\ Shape(loaded.accs[k].instances) = Shape(snarks[k].instances)
                  /\ target = "agg" =>
                        /\ loaded.accs[k].instances = KnownColumns(native.accs[k].instances)
                        /\ loaded.accs[k].proof.read = Known(native.accs[k].proof.read)

C6_Witness ==
    /\ AggregateRan /\ target = "agg"
    /\ Len(snarks) = 2
    /\ snarks[1].protocol # snarks[2].protocol
    /\ loaded.accs[2].protocol = snarks[2].protocol

\* the argument of a native call as the witnessed circuit loads it
LoadedArgs(call) ==
    IF call.op = "transcript" THEN << Known(call.args[1]) >>
    ELSE << call.args[1], call.args[2], KnownColumns(call.args[3]) >>

\* C7: native mode and loaded mode make the same calls in the same order:
\* per snark a transcript over its proof, read_proof, succinct_verify with
\* the same verifying key, protocol and instances, then one accumulation
\* step over all the accumulators; and the accumulator whose limbs the
\* witnessed circuit exposes is the one computed natively and stored as the
\* circuit's instances.
C7_TwoModes ==
    (agg_circuit.some /\ AggregateRan) =>
      LET n == Len(snarks)
      IN  /\ Len(native.trace) = 3 * n + 1
          /\ Len(loaded.trace) = 3 * n + 2
          /\ \A i \in 1..(3 * n) :
                /\ native.trace[i].op = <<"transcript", "read_proof", "succinct_verify">>[((i - 1) % 3) + 1]
                /\ loaded.trace[i].op = native.trace[i].op
                /\ target = "agg" => loaded.trace[i].args = LoadedArgs(native.trace[i])
                /\ native.trace[i].op # "transcript" =>
                      /\ loaded.trace[i].args[1] = native.trace[i].args[1]
                      /\ loaded.trace[i].args[2] = native.trace[i].args[2]
          /\ native.trace[3 * n + 1] = Call("As::create_proof", <<native.accs>>)
          /\ loaded.trace[3 * n + 1] = Call("As::read_proof",
                                            <<loaded.accs, CircuitOf(target).as_proof>>)
          /\ loaded.trace[3 * n + 2] = Call("As::verify", <<loaded.accs>>)
          /\ target = "agg" =>
                /\ loaded.accumulator = Known(native.accumulator.get)
                /\ \A c \in 1..4 : \A j \in 0..(LIMBS - 1) :
                      advice[<<CoordinateNames[c], j>>]
                        = Known(agg_circuit.get.instances[(c - 1) * LIMBS + j + 1])

C7_Witness ==
    /\ AggregateRan /\ target = "agg"
    /\ Len(snarks) = 2
    /\ snarks[1] # snarks[2]
    /\ loaded.accumulator = Known(native.accumulator.get)

\* C8: a SnarkWitness converted from a Snark has the Snark's protocol and
\* instance shape with every instance and the proof known; the circuit's
\* without_witnesses keeps the verifying key and the number and order of the
\* snarks (their protocols and instance shapes) and makes every instance,
\* every proof and the accumulation proof unknown.
C8_WitnessDuality ==
    /\ agg_circuit.some =>
         \A k \in 1..Len(snarks) :
            LET w == agg_circuit.get.snarks[k]
            IN  /\ w.protocol = snarks[k].protocol
                /\ Shape(w.instances) = Shape(snarks[k].instances)
                /\ \A i \in 1..Len(w.instances) : \A j \in 1..Len(w.instances[i]) :
                      w.instances[i][j] = Known(snarks[k].instances[i][j])
                /\ w.proof = Known(snarks[k].proof)
    /\ shadow.some =>
         /\ shadow.get.svk = agg_circuit.get.svk
         /\ Len(shadow.get.snarks) = Len(agg_circuit.get.snarks)
         /\ shadow.get.as_proof = Unknown
         /\ \A k \in 1..Len(shadow.get.snarks) :
               LET u == shadow.get.snarks[k]
                   w == agg_circuit.get.snarks[k]
               IN  /\ u.protocol = w.protocol
                   /\ Shape(u.instances) = Shape(w.instances)
                   /\ \A i \in 1..Len(u.instances) : \A j \in 1..Len(u.instances[i]) :
                         ~u.instances[i][j].known
                   /\ ~u.proof.known

C8_Witness ==
    /\ shadow.some
    /\ wwCalls = 2
    /\ Len(shadow.get.snarks) = 2
    /\ shadow.get.snarks[1].protocol # shadow.get.snarks[2].protocol

\* C9: every Snark record that exists has instances of the shape its
\* protocol declares, and a Snark whose instances do not match is rejected
\* before any verification arithmetic (succinct_verify) is run on it.
SnarkWellFormed(snark) == Shape(snark.instances) = snark.protocol.num_instance

C9_SnarkShape ==
    /\ \A k \in 1..Len(snarks) : SnarkWellFormed(snarks[k])
    /\ \A i \in 1..Len(native.trace) :
          native.trace[i].op = "succinct_verify" =>
             Shape(native.trace[i].args[3]) = native.trace[i].args[2].num_instance

\* C10: evm_verify completes normally only if the verifier was deployed to
\* an address and the one call, with calldata encode_calldata(instances,
\* proof), did not revert; a failed deployment or a revert ends in a panic
\* that reaches the caller, and nothing is retried.
CalldataOf(insts, proof) ==
    [n \in 1..(ReprLen * Len(insts[1]) + Len(proof)) |->
       IF n <= ReprLen * Len(insts[1])
       THEN insts[1][((n - 1) \div ReprLen) + 1][ReprLen - ((n - 1) % ReprLen)]
       ELSE proof[n - ReprLen * Len(insts[1])]]

C10_HarnessFailure ==
    /\ Len(evm.log) <= 2
    /\ \A i \in 1..Len(evm.log) : evm.log[i].op = <<"deploy", "call_raw">>[i]
    /\ pc = "done" =>
         /\ Len(evm.log) = 2
         /\ evm.verifier.some
         /\ evm.log[2].args = <<Caller, evm.verifier.get,
                                CalldataOf(evm.args.get.instances, evm.args.get.proof)>>
         /\ evm.result.some /\ ~evm.result.get.reverted
    /\ (Len(evm.log) >= 1 /\ ~evm.verifier.some) => (pc = "panicked" /\ Len(evm.log) = 1)
    /\ (evm.result.some /\ evm.result.get.reverted) => pc \in {"evm_assert", "panicked"}
    /\ pc = "panicked" => panic # "none"

C10_Witness ==
    /\ pc = "done"
    /\ ~evm.result.get.reverted
    /\ Len(evm.calldata) = ReprLen * 4 * LIMBS + Len(evm.args.get.proof)

\* C13 as stated: every circuit reached by AggregationCircuit::new followed
\* by any number of without_witnesses calls has an instances() result of the
\* shape num_instance(), one column of 4 * LIMBS elements.
C13_ShapeAlways ==
    /\ agg_circuit.some => Shape(instances(agg_circuit.get)) = num_instance
    /\ shadow.some => Shape(instances(shadow.get)) = num_instance

\* C13 (amended): the circuit returned by AggregationCircuit::new has an
\* instances() result of the shape num_instance(); after one or more
\* without_witnesses calls instances() is a single empty column.
C13_ShapeAmended ==
    /\ agg_circuit.some =>
         /\ Shape(instances(agg_circuit.get)) = num_instance
         /\ Shape(instances(agg_circuit.get)) = << 4 * LIMBS >>
    /\ shadow.some =>
         /\ wwCalls >= 1
         /\ Len(instances(shadow.get)) = 1
         /\ instances(shadow.get)[1] = <<>>
    /\ wwCalls >= 1 => shadow.some

C13_Witness ==
    /\ shadow.some
    /\ wwCalls = MaxWithout
    /\ Shape(instances(shadow.get)) = <<0>>
    /\ Shape(instances(agg_circuit.get)) = <<12>>

\* ------------------------------------------------- limb round trip (C12)
\* coordinates at the limb boundaries: 0, 1, 2^BITS - 1, 2^BITS,
\* 2^(2*BITS) - 1, 2^(2*BITS), and q - 1, which fills the top limb
FqOne == Pad(<<1>>, ReprLen)
FqLimbMax == Pad([i \in 1..(BITS \div 8) |-> 255], ReprLen)
FqLimbNext == Pad([i \in 1..((BITS \div 8) + 1) |-> IF i = (BITS \div 8) + 1 THEN 1 ELSE 0],
                  ReprLen)
FqTwoLimbMax == Pad([i \in 1..(2 * (BITS \div 8)) |-> 255], ReprLen)
FqTwoLimbNext ==
    Pad([i \in 1..(2 * (BITS \div 8) + 1) |-> IF i = 2 * (BITS \div 8) + 1 THEN 1 ELSE 0],
        ReprLen)

FeInputs == {FqZero, FqOne, FqLimbMax, FqLimbNext, FqTwoLimbMax, FqTwoLimbNext,
             FqTop, FqA, FqB, FqC}

LimbAccSamples ==
    { KzgAccumulator(Point(a, b), Point(b, a)) :
        a \in FeInputs, b \in {FqTop, FqTwoLimbMax, FqLimbNext} }

\* AggregationCircuit::new over the boundary coordinates
Limb_new == NewWith(LimbAccSamples)

LimbNext == Snark_new \/ Limb_new

SpecLimbs == Init /\ [][LimbNext]_vars

\* numbers wider than a field element, as little-endian bytes
WideLen == 2 * ReprLen

\* byte j (from 0) of big << shift
ShlByte(big, shift, j) ==
    LET b(k) == IF 8 * j + k >= shift THEN BigBit(big, 8 * j + k - shift) * Pow2(k) ELSE 0
    IN  b(0) + b(1) + b(2) + b(3) + b(4) + b(5) + b(6) + b(7)

Shl(big, shift) == [i \in 1..WideLen |-> ShlByte(big, shift, i - 1)]

\* a + b from byte i on, given the carry into byte i
RECURSIVE AddFrom(_, _, _, _)
AddFrom(a, b, i, carry) ==
    IF i > WideLen THEN <<>>
    ELSE LET t == a[i] + b[i] + carry
         IN  <<t % 256>> \o AddFrom(a, b, i + 1, t \div 256)

BigAdd(a, b) == AddFrom(a, b, 1, 0)

\* sum of limb_i * 2^(bits * i), limb 0 first
RECURSIVE Recompose(_, _, _)
Recompose(limbs, bits, i) ==
    IF i > Len(limbs) THEN Pad(<<>>, WideLen)
    ELSE BigAdd(Shl(limbs[i], bits * (i - 1)), Recompose(limbs, bits, i + 1))

BelowPow2(big, bits) == \A n \in bits..(8 * Len(big) - 1) : BigBit(big, n) = 0

\* C12: the LIMBS limbs of BITS bits that AggregationCircuit::new takes of
\* lhs.x, lhs.y, rhs.x and rhs.y recompose, as the sum of limb_i * 2^(BITS*i),
\* to exactly the coordinate, and each limb is below 2^BITS.
C12_LimbRoundTrip ==
    agg_circuit.some =>
      \A c \in 1..4 :
         LET limbs == SubSeq(agg_circuit.get.instances, (c - 1) * LIMBS + 1, c * LIMBS)
         IN  /\ Len(limbs) = LIMBS
             /\ Recompose(limbs, BITS, 1) = Pad(Coordinates(native.accumulator.get)[c], WideLen)
             /\ \A j \in 1..LIMBS : BelowPow2(limbs[j], BITS)

C12_Witness ==
    /\ agg_circuit.some
    /\ native.accumulator.get.lhs.x = FqTop
    /\ native.accumulator.get.lhs.y = FqTwoLimbMax
    /\ agg_circuit.get.instances[LIMBS] # FqZero
====
